---- MODULE Spec2Model ----
(***************************************************************************)
(* Job lifecycle of the podcast generator: the job queue                   *)
(* (backend/app/services/job_queue.py) and the pipeline worker it runs in  *)
(* a background asyncio task (backend/app/services/podcast_generator.py).  *)
(*                                                                         *)
(* The event loop is single-threaded: a coroutine runs until it awaits     *)
(* something that really suspends.  One action of the model is one such    *)
(* uninterrupted run: an API call of the queue (none of them suspends), or *)
(* one step of a background task from the point where it is suspended to   *)
(* its next suspension.  A task suspends in a collaborator call that does  *)
(* I/O and in the job's progress callback.                                 *)
(***************************************************************************)
EXTENDS Integers, Sequences, FiniteSets, TLC

\* ---------------------------------------------------------------- bounds
MaxJobs == 1        \* at most this many jobs are created and started
MaxIdle == 1        \* with the sweeper, this many more jobs are created
MaxSources == 1     \* size of the list source discovery returns
MaxLimit == 2       \* the limit of a listing is at most this
MaxTicks == 3       \* the clock advances at most this many times
TickHours == 12     \* hours the clock advances by at a time

\* ------------------------------------------------------ program constants
RetentionHours == 24
StageDivisor == 20
DefaultError == "Podcast generation failed"

PENDING == "pending"
RUNNING == "running"
COMPLETED == "completed"
FAILED == "failed"
CANCELLED == "cancelled"

JobState == {PENDING, RUNNING, COMPLETED, FAILED, CANCELLED}
Terminal == {COMPLETED, FAILED, CANCELLED}

\* Optional values: None is the empty sequence, Some(x) the one-element one.
None == <<>>
Some(x) == <<x>>
Val(o) == o[1]

JobIds == 1..(MaxJobs + MaxIdle)

\* Messages a failing collaborator or file operation may raise with
\* (str(e) may be empty).
ErrMsgs == {"", "stage failed"}

VARIABLES
    jobs,          \* JobQueue.jobs: job id -> Job
    running_jobs,  \* JobQueue.running_jobs: job id -> task
    tasks,         \* the asyncio tasks created by start_job, in creation order
    files,         \* artifact files on disk, <<kind, job id>>
    calls,         \* per job id, the collaborators invoked so far, in order
    now,           \* datetime.utcnow(), in hours
    nextId,        \* number of jobs created so far + 1 (ids are fresh)
    providers      \* PodcastGenerator.llm_provider / tts_provider: set or None

vars == <<jobs, running_jobs, tasks, files, calls, now, nextId, providers>>

\* ------------------------------------------------------------- Job record
\* The requests jobs are created with: GenerateRequest as validated by the
\* route (tone and length are Literals, description may be empty).
Topics == {"ai", "tea"}
Descriptions == {"", "for beginners"}
Tones == {"neutral", "funny"}
Lengths == {5, 10, 15}

Requests ==
    [topic : Topics, description : Descriptions, tone : Tones,
     target_length : Lengths]

\* GenerateRequest.length: Field(default=10)
DefaultLength == 10

\* The request of the jobs that create_job(cb) makes.
PlainRequest ==
    [topic |-> "ai", description |-> "", tone |-> "neutral",
     target_length |-> DefaultLength]

NewJob(cb, t) ==
    [status |-> PENDING,
     request |-> PlainRequest,
     progress |-> None,
     result |-> None,
     error |-> None,
     created_at |-> t,
     updated_at |-> t,
     started_at |-> None,
     completed_at |-> None,
     progress_callback |-> cb]

\* Job(topic=..., description=..., tone=..., target_length=...)
NewJobFor(req, cb, t) == [NewJob(cb, t) EXCEPT !.request = req]

\* The worker's `request = GenerateRequest(topic=job.topic,
\* description=job.description, tone=job.tone,
\* target_length=job.target_length)`: GenerateRequest has no field
\* target_length, the keyword is ignored and `length` takes its default.
WorkerRequest(job) ==
    [topic |-> job.request.topic, description |-> job.request.description,
     tone |-> job.request.tone, length |-> DefaultLength]

\* The keyword arguments of generate_script / generate_script_from_text.
ScriptArgs(request) ==
    [topic |-> request.topic, description |-> request.description,
     tone |-> request.tone, target_length |-> request.length]

\* A task as created by asyncio.create_task(self._run_job(job_id, ...)).
\*   pc: "created" not yet run, "cb" suspended in the progress callback of
\*       operation op, "call" suspended in the collaborator call of
\*       operation op, "done" exited.
\*   exit: how it exited.
\*   rm_failed: the file whose removal failed in the task's cleanup (what
\*       the cleanup's warning in the log names), "nofile" if none did.
NewTask(j) ==
    [job |-> j, pc |-> "created", op |-> 0, must_cancel |-> FALSE,
     sources |-> 0, fallback |-> FALSE, extracted |-> 0,
     temp_files |-> {}, exit |-> "live", rm_failed |-> "nofile",
     cb_raised |-> FALSE, request |-> None]

\* --------------------------------------------------------------- pipeline
Op(kind, percent, msg, branch, name) ==
    [kind |-> kind, percent |-> percent, msg |-> msg, branch |-> branch,
     name |-> name]

Report(percent, msg, branch) == Op("report", percent, msg, branch, "")

\* _run_job before it awaits the worker.
RunJobHead == <<
    Report(0, "Starting podcast generation...", "any")
>>

\* Stage 1, web search.
SearchOps == <<
    Op("getjob", 0, "", "any", ""),
    Report(0, "Searching the web for diverse sources...", "any"),
    Op("call", 0, "", "any", "get_diverse_sources")
>>

FallbackOpsSwapped == <<
    Report(30, "Generated fallback content successfully", "fallback"),
    Report(15, "No web sources found, generating content from topic...", "fallback")
>>

\* `if not sources:` the fallback arm.
FallbackOps == <<
    Report(15, "No web sources found, generating content from topic...", "fallback"),
    Report(30, "Generated fallback content successfully", "fallback")
>>

\* `else:` stage 2, content extraction.
ExtractOps == <<
    Report(15, "Found relevant sources", "sources"),
    Report(20, "Extracting and cleaning content from sources...", "sources"),
    Op("call", 0, "", "sources", "extract_content_from_sources"),
    Report(30, "Content extraction completed", "sources")
>>

ScriptOpsNoFallback == <<
    Report(35, "Extracted content", "any"),
    Report(50, "Generating podcast script using AI...", "any"),
    Op("call", 0, "", "any", "generate_script"),
    Report(65, "Script generated successfully", "any")
>>

\* Stage 3, script generation.
ScriptOps == <<
    Report(35, "Extracted content", "any"),
    Report(50, "Generating podcast script using AI...", "any"),
    Op("call", 0, "", "fallback", "generate_script_from_text"),
    Op("call", 0, "", "sources", "generate_script"),
    Report(65, "Script generated successfully", "any")
>>

\* Speech synthesis before the script is persisted.
SpeechOpsBeforeScript == <<
    Report(70, "Converting script to speech...", "any"),
    Op("call", 0, "", "any", "generate_speech"),
    Op("write_script", 0, "", "any", ""),
    Report(80, "Speech generation completed", "any")
>>

\* Stage 4, text to speech.
SpeechOps == <<
    Report(70, "Converting script to speech...", "any"),
    Op("write_script", 0, "", "any", ""),
    Op("call", 0, "", "any", "generate_speech"),
    Report(80, "Speech generation completed", "any")
>>

\* Stage 5, audio processing (process_audio never suspends: it awaits only
\* coroutines that do blocking work).
AudioOps == <<
    Report(85, "Processing and enhancing audio...", "any"),
    Op("audio", 0, "", "any", "process_audio"),
    Report(95, "Audio processing completed", "any")
>>

\* Stage 6, show notes, and the result.
NotesOps == <<
    Report(98, "Generating show notes...", "any"),
    Op("notes", 0, "", "any", ""),
    Report(100, "Podcast generation completed!", "any"),
    Op("finish", 0, "", "any", "")
>>

\* _run_job after the result is stored.
RunJobTail == <<
    Report(100, "Podcast generation completed!", "any"),
    Op("exit", 0, "", "any", "")
>>

\* The straight-line sequence of _run_job and _generate_podcast_worker.
\* branch "fallback" / "sources": the operation belongs to one arm of
\* `if not sources`, or of `isinstance(extracted_content, str)`.
Ops ==
    RunJobHead \o SearchOps \o FallbackOps \o ExtractOps \o ScriptOps
    \o SpeechOps \o AudioOps \o NotesOps \o RunJobTail

\* The report _run_job makes after it has stored the outcome.
FinalReportOp == Len(Ops) - 1

BranchTaken(op, task) ==
    \/ op.branch = "any"
    \/ op.branch = "fallback" /\ task.fallback
    \/ op.branch = "sources" /\ ~task.fallback

\* ------------------------------------------------------ progress reporter
\* A stage index that rounds to the nearest stage.
StageOfRounded(percent) == (percent + StageDivisor \div 2) \div StageDivisor

\* stage=int(percent / 20)
StageOf(percent) == percent \div StageDivisor

ProgressUpdate(percent, msg) ==
    [stage |-> StageOf(percent), message |-> msg, percent |-> percent]

\* A progress report that stamps the job with its creation time.
StoreProgressStale(js, j, percent, msg, t) ==
    IF j \notin DOMAIN js THEN js
    ELSE [js EXCEPT ![j].progress = Some(ProgressUpdate(percent, msg)),
                    ![j].updated_at = js[j].created_at]

\* _update_job_progress up to the callback: store the snapshot.
StoreProgress(js, j, percent, msg, t) ==
    IF j \notin DOMAIN js THEN js
    ELSE [js EXCEPT ![j].progress = Some(ProgressUpdate(percent, msg)),
                    ![j].updated_at = t]

\* ------------------------------------------------------------------ files
FileKinds == {"speech", "podcast", "notes", "script"}
NoFile == "nofile"

\* The files of `paths` whose os.remove may raise: one of those that exist,
\* or none.
BadChoices(fs, paths) == {NoFile} \cup {f[1] : f \in fs \cap paths}

JobFiles(j) == {<<k, j>> : k \in FileKinds}

\* files_to_remove of _cleanup_files, in its order.
CleanupOrder == <<"speech", "podcast", "notes", "script">>

\* A cleanup that removes the artifacts by kind, whatever job they are of.
CleanupFilesOfAnyJob(fs, j, bad) ==
    {f \in fs : f[1] \notin FileKinds}

CleanupFilesKeepsScript(fs, j, bad) ==
    fs \ {<<k, j>> : k \in {"speech", "podcast", "notes"}}

\* _cleanup_files: removes the job's files in order; os.remove raising on
\* the file `bad` ends the loop (the exception is caught around the loop).
CleanupFiles(fs, j, bad) ==
    LET failsAt == {i \in 1..Len(CleanupOrder) :
                        CleanupOrder[i] = bad /\ <<bad, j>> \in fs}
        stop == IF failsAt = {} THEN Len(CleanupOrder) + 1
                ELSE CHOOSE i \in failsAt : TRUE
    IN  fs \ {<<CleanupOrder[i], j>> : i \in 1..(stop - 1)}

\* AudioProcessor.cleanup_temp_files: each removal has its own try.
CleanupTempFiles(fs, temp, bad) ==
    fs \ {f \in temp : f[1] # bad}

\* ---------------------------------------------------------------- results
\* PodcastMetrics: the part of it that depends on the path taken.
Metrics(task) ==
    [sources_used |-> IF task.fallback THEN 0 ELSE task.extracted]

ReadyResultUntitled(j, task) ==
    [status |-> "ready", job_id |-> j, title |-> None,
     mp3_url |-> <<"podcast", j>>, notes_url |-> <<"notes", j>>,
     script_url |-> <<"script", j>>, metrics |-> Some(Metrics(task)),
     error |-> None]

\* `PodcastResult(status="ready", ...)`: the URLs end in the file names of
\* the job's artifacts.
ReadyResult(j, task) ==
    [status |-> "ready", job_id |-> j, title |-> Some("Podcast: topic"),
     mp3_url |-> <<"podcast", j>>, notes_url |-> <<"notes", j>>,
     script_url |-> <<"script", j>>, metrics |-> Some(Metrics(task)),
     error |-> None]

ErrorResultGeneric(j, msg) ==
    [status |-> "error", job_id |-> j, title |-> None, mp3_url |-> None,
     notes_url |-> None, script_url |-> None, metrics |-> None,
     error |-> Some(DefaultError)]

\* `PodcastResult(status="error", job_id=job_id, error=str(e), ...)`
ErrorResult(j, msg) ==
    [status |-> "error", job_id |-> j, title |-> None, mp3_url |-> None,
     notes_url |-> None, script_url |-> None, metrics |-> None,
     error |-> Some(msg)]

FailureMessageOfCleanup(msg, bad) ==
    IF bad = NoFile THEN msg ELSE "cleanup failed"

\* `error=str(e)` of the worker's handler: e is the exception of the stage;
\* an exception of the cleanup that follows was caught and logged.
FailureMessage(msg, bad) == msg

ErrorTextRaw(e) == IF e = None THEN "" ELSE Val(e)

\* `result.error or "Podcast generation failed"`
ErrorText(e) == IF e = None \/ e = Some("") THEN DefaultError ELSE Val(e)

ResultStateIgnoringError(result) == COMPLETED

\* `if hasattr(result, 'status') and result.status == "error"`
ResultState(result) == IF result.status = "error" THEN FAILED ELSE COMPLETED

\* What _run_job stores in job.result.
StoredResult(result) == Some(result)

StoredErrorAlways(result, old) == Some(ErrorText(result.error))

\* What _run_job leaves in job.error: set only for an error result.
StoredError(result, old) ==
    IF result.status = "error" THEN Some(ErrorText(result.error)) ELSE old

\* _run_job, "Update job with result" up to the final progress report.
StoreResult(js, j, result, t) ==
    IF j \notin DOMAIN js THEN js
    ELSE [js EXCEPT
            ![j].status = ResultState(result),
            ![j].error = StoredError(result, @),
            ![j].result = StoredResult(result),
            ![j].completed_at = Some(t),
            ![j].updated_at = t]

\* `finally: if job_id in self.running_jobs: del self.running_jobs[job_id]`
Unregister(rj, j) == [k \in DOMAIN rj \ {j} |-> rj[k]]

\* A task that has exited: its frame (the locals of the coroutines) is gone,
\* what remains is how it ended.
Exited(task, how) ==
    [NewTask(task.job) EXCEPT !.pc = "done", !.exit = how,
                              !.rm_failed = task.rm_failed]

\* ------------------------------------------------------- one run of a task
\* A world w is what a run reads and writes: jobs, running_jobs, files,
\* calls and the task's own record.  Run(w, k, t) is the set of worlds the
\* task may be in when it next suspends or exits, having executed from
\* operation k on at time t: a local file operation may succeed or raise,
\* and so may the removal of a file.
RECURSIVE Run(_, _, _)

\* _run_job: `except asyncio.CancelledError` and `finally`.
OnCancelled(w, t) ==
    LET j == w.task.job IN
    IF j \notin DOMAIN w.jobs
    THEN \* self.jobs[job_id] raises KeyError inside the handler
         [w EXCEPT !.running_jobs = Unregister(@, j),
                   !.task = Exited(@, "exception")]
    ELSE [w EXCEPT !.jobs[j].status = CANCELLED,
                   !.jobs[j].updated_at = t,
                   !.running_jobs = Unregister(@, j),
                   !.task = Exited(@, "cancelled")]

\* CancelledError delivered at the task's await.  The speech provider
\* writes output_path (gTTS in a thread that goes on after the await is
\* cancelled), so a task cancelled in generate_speech may leave that file.
CancelledAtAwait(w, t) ==
    LET j == w.task.job
        inSpeech == w.task.pc = "call" /\ Ops[w.task.op].name = "generate_speech"
    IN  {OnCancelled(w, t)}
        \cup (IF inSpeech
               THEN {OnCancelled([w EXCEPT !.files = @ \cup {<<"speech", j>>}], t)}
               ELSE {})

\* _generate_podcast_worker: `except Exception` (cleanup, error result),
\* then _run_job goes on with the result.
WorkerFail(w, msg, t) ==
    LET j == w.task.job IN
    UNION {
        LET fs1 == CleanupFiles(w.files, j, bad)
            fs2 == CleanupTempFiles(fs1, w.task.temp_files, bad)
        IN  Run([w EXCEPT !.files = fs2,
                          !.task.rm_failed = bad,
                          !.jobs = StoreResult(@, j,
                                      ErrorResult(j, FailureMessage(msg, bad)), t)],
                FinalReportOp, t)
        : bad \in BadChoices(w.files, JobFiles(j) \cup w.task.temp_files) }

\* A local operation that writes `path`: raises, or writes and goes on.
LocalWrite(w, k, path, t) ==
    WorkerFail(w, "stage failed", t)
    \cup Run([w EXCEPT !.files = @ \cup {path}], k + 1, t)

Run(w, k, t) ==
    LET op == Ops[k]
        j == w.task.job
    IN
    IF ~BranchTaken(op, w.task) THEN Run(w, k + 1, t)
    ELSE CASE op.kind = "report" ->
                LET w2 == [w EXCEPT !.jobs =
                              StoreProgress(@, j, op.percent, op.msg, t)]
                IN  IF j \in DOMAIN w.jobs /\ w.jobs[j].progress_callback
                    THEN {[w2 EXCEPT !.task.pc = "cb", !.task.op = k]}
                    ELSE Run(w2, k + 1, t)
           [] op.kind = "getjob" ->
                IF j \in DOMAIN w.jobs
                THEN Run([w EXCEPT !.task.request =
                                      Some(WorkerRequest(w.jobs[j]))],
                         k + 1, t)
                ELSE WorkerFail(w, "Job not found", t)
           [] op.kind = "call" ->
                {[w EXCEPT !.calls[j] = Append(@, op.name),
                           !.task.pc = "call", !.task.op = k,
                           !.task.temp_files =
                               IF op.name = "generate_speech"
                               THEN @ \cup {<<"speech", j>>} ELSE @]}
           [] op.kind = "write_script" ->
                LocalWrite(w, k, <<"script", j>>, t)
           [] op.kind = "audio" ->
                \* process_audio works in the thread of the event loop
                \* (pydub, ffmpeg): when it does not return, the run does
                \* not end
                IF w.audio_hangs
                THEN {[w EXCEPT !.calls[j] = Append(@, op.name),
                                !.task.pc = "blocked", !.task.op = k]}
                ELSE LocalWrite([w EXCEPT !.calls[j] = Append(@, op.name)], k,
                                <<"podcast", j>>, t)
           [] op.kind = "notes" ->
                LocalWrite(w, k, <<"notes", j>>, t)
           [] op.kind = "finish" ->
                UNION {
                    Run([w EXCEPT
                           !.files = CleanupTempFiles(@, w.task.temp_files, bad),
                           !.task.rm_failed = bad,
                           !.jobs = StoreResult(@, j, ReadyResult(j, w.task), t)],
                        k + 1, t)
                    : bad \in BadChoices(w.files, w.task.temp_files) }
           [] OTHER -> \* exit: the finally clause
                {[w EXCEPT !.running_jobs = Unregister(@, j),
                           !.task = Exited(@, "returned")]}

\* A progress callback that raises fails the stage that reported.
AfterCallbackPropagates(w, k, raised, t) ==
    IF raised THEN WorkerFail([w EXCEPT !.task.cb_raised = TRUE],
                              "stage failed", t)
    ELSE Run(w, k + 1, t)

\* _update_job_progress after `await job.progress_callback(progress)` of
\* report k: an exception of the callback is logged (cb_raised notes that
\* it happened) and dropped, and the caller goes on after the report.
AfterCallback(w, k, raised, t) ==
    Run([w EXCEPT !.task.cb_raised = @ \/ raised], k + 1, t)

\* -------------------------------------------------- collaborator outcomes
Outcome(raises, n, msg, wrote) ==
    [raises |-> raises, n |-> n, msg |-> msg, wrote |-> wrote]

\* What the awaited collaborator of a suspended task may come back with:
\* a value, or an exception with some message.
CallOutcomes(task, name) ==
    {Outcome(TRUE, 0, m, FALSE) : m \in ErrMsgs}
    \cup
    (CASE name = "get_diverse_sources" ->
            {Outcome(FALSE, n, "", FALSE) : n \in 0..MaxSources}
       [] name = "extract_content_from_sources" ->
            {Outcome(FALSE, n, "", FALSE) : n \in 0..task.sources}
       [] name = "generate_speech" ->
            \* the provider writes output_path; it may fail after writing
            {Outcome(FALSE, 0, "", TRUE), Outcome(TRUE, 0, "stage failed", TRUE)}
       [] OTHER -> {Outcome(FALSE, 0, "", FALSE)})

\* The collaborator call of operation k has come back with `out`.
AfterCall(w, k, out, t) ==
    LET name == Ops[k].name
        j == w.task.job
        w1 == [w EXCEPT !.files = IF out.wrote THEN @ \cup {<<"speech", j>>}
                                  ELSE @]
    IN  IF out.raises THEN WorkerFail(w1, out.msg, t)
        ELSE CASE name = "get_diverse_sources" ->
                    Run([w1 EXCEPT !.task.sources = out.n,
                                   !.task.fallback = (out.n = 0)],
                        k + 1, t)
               [] name = "extract_content_from_sources" ->
                    Run([w1 EXCEPT !.task.extracted = out.n], k + 1, t)
               [] OTHER -> Run(w1, k + 1, t)

\* ------------------------------------------------------------ queue calls
\* A queue q is [jobs, running_jobs, tasks]; a call gives the queue after it
\* and the value it returns.
Returns(q, val) == [q |-> q, val |-> val]

StartAllowedUnlessDone(job) == job.status \in {PENDING, RUNNING}

\* `if job.status != JobState.PENDING: return False`
StartAllowed(job) == job.status = PENDING

CancelAllowedAlways(job) == TRUE

CancelAllowedRunningOnly(job) == job.status = RUNNING

CancelAllowedUnlessCancelled(job) == job.status # CANCELLED

\* `if job.status not in [JobState.PENDING, JobState.RUNNING]: return False`
CancelAllowed(job) == job.status \in {PENDING, RUNNING}

StartJobUnrecorded(q, j, t) ==
    IF j \notin DOMAIN q.jobs THEN [q |-> q, val |-> FALSE]
    ELSE IF q.jobs[j].status # PENDING THEN [q |-> q, val |-> FALSE]
    ELSE [q |-> [q EXCEPT !.jobs[j].status = RUNNING,
                          !.jobs[j].started_at = Some(t),
                          !.jobs[j].updated_at = t,
                          !.tasks = Append(@, NewTask(j))],
          val |-> TRUE]

\* start_job
StartJob(q, j, t) ==
    IF j \notin DOMAIN q.jobs THEN Returns(q, FALSE)
    ELSE IF ~StartAllowed(q.jobs[j]) THEN Returns(q, FALSE)
    ELSE Returns([q EXCEPT !.jobs[j].status = RUNNING,
                           !.jobs[j].started_at = Some(t),
                           !.jobs[j].updated_at = t,
                           !.tasks = Append(@, NewTask(j)),
                           !.running_jobs = (j :> (Len(q.tasks) + 1)) @@ @],
                 TRUE)

TaskCancelIgnored(task) == task

\* task.cancel(): a request, delivered when the task next runs.
TaskCancel(task) ==
    IF task.pc = "done" THEN task ELSE [task EXCEPT !.must_cancel = TRUE]

CancelTaskForgotten(q, j) ==
    [q EXCEPT !.running_jobs = Unregister(@, j)]

\* A cancel that leaves the task registered.
CancelTaskKeepsRegistered(q, j) ==
    [q EXCEPT !.tasks[q.running_jobs[j]] = TaskCancel(@)]

\* What cancel_job does with the task of a job that has one.
CancelTask(q, j) ==
    [q EXCEPT !.tasks[q.running_jobs[j]] = TaskCancel(@),
              !.running_jobs = Unregister(@, j)]

\* cancel_job
CancelJob(q, j, t) ==
    IF j \notin DOMAIN q.jobs THEN Returns(q, FALSE)
    ELSE IF ~CancelAllowed(q.jobs[j]) THEN Returns(q, FALSE)
    ELSE LET q1 == IF j \in DOMAIN q.running_jobs THEN CancelTask(q, j) ELSE q
         IN  Returns([q1 EXCEPT !.jobs[j].status = CANCELLED,
                                !.jobs[j].updated_at = t],
                     TRUE)

RemoveJobUnregisters(q, j, t) ==
    IF j \in DOMAIN q.jobs
    THEN [q |-> [q EXCEPT !.jobs = [k \in DOMAIN q.jobs \ {j} |-> q.jobs[k]]],
          val |-> TRUE]
    ELSE [q |-> [q EXCEPT !.running_jobs = Unregister(@, j)], val |-> FALSE]

\* remove_job
RemoveJob(q, j, t) ==
    LET q1 == IF j \in DOMAIN q.running_jobs THEN CancelJob(q, j, t).q ELSE q
    IN  IF j \in DOMAIN q1.jobs
        THEN Returns([q1 EXCEPT !.jobs = [k \in DOMAIN q1.jobs \ {j} |-> q1.jobs[k]]],
                     TRUE)
        ELSE Returns(q1, FALSE)

\* The values the status field of JobStatus accepts.
StatusLiteral == {"pending", "running", "completed", "failed", "canceled"}

\* get_job_status: None for an unknown id; else JobStatus(...) is built
\* from the job, with status=job.status.value, which pydantic validates
\* against the field's Literal.
GetJobStatus(q, j) ==
    IF j \notin DOMAIN q.jobs THEN [kind |-> "none"]
    ELSE IF q.jobs[j].status \notin StatusLiteral THEN [kind |-> "raises"]
    ELSE [kind |-> "snapshot",
          job_id |-> j,
          status |-> q.jobs[j].status,
          progress |-> q.jobs[j].progress,
          result |-> q.jobs[j].result,
          error |-> q.jobs[j].error,
          created_at |-> q.jobs[j].created_at,
          updated_at |-> q.jobs[j].updated_at]

\* `jobs.sort(key=lambda x: x.created_at, reverse=True)` of the jobs `ids`
\* taken in the order of self.jobs: newest first, and the sort being
\* stable, jobs created at the same time stay in insertion order.
RECURSIVE NewestFirst(_, _)
NewestFirst(js, ids) ==
    IF ids = {} THEN <<>>
    ELSE LET x == CHOOSE x \in ids : \A y \in ids :
                      \/ js[x].created_at > js[y].created_at
                      \/ js[x].created_at = js[y].created_at /\ x <= y
         IN  <<x>> \o NewestFirst(js, ids \ {x})

\* `jobs[:limit]`
Take(seq, limit) ==
    SubSeq(seq, 1, IF limit < Len(seq) THEN limit ELSE Len(seq))

\* `[await self.get_job_status(job.job_id) for job in ...]`: the list of
\* the snapshots, unless building one of them raises.
Snapshots(q, seq) ==
    IF \E k \in 1..Len(seq) : GetJobStatus(q, seq[k]).kind = "raises"
    THEN [kind |-> "raises"]
    ELSE [kind |-> "list",
          items |-> [k \in 1..Len(seq) |-> GetJobStatus(q, seq[k])]]

\* get_all_jobs
GetAllJobs(q, limit) ==
    Snapshots(q, Take(NewestFirst(q.jobs, DOMAIN q.jobs), limit))

\* get_jobs_by_status
GetJobsByStatus(q, status, limit) ==
    Snapshots(q, Take(NewestFirst(q.jobs,
                        {j \in DOMAIN q.jobs : q.jobs[j].status = status}),
                      limit))

\* No job: the value of a job-id input that names none.
\* get_queue_stats
GetQueueStats(q) ==
    [total_jobs |-> Cardinality(DOMAIN q.jobs),
     running_jobs |-> Cardinality(DOMAIN q.running_jobs),
     status_counts |->
         [st \in {q.jobs[j].status : j \in DOMAIN q.jobs} |->
             Cardinality({j \in DOMAIN q.jobs : q.jobs[j].status = st})]]

NoJob == 0

\* `for job_id in jobs_to_remove: await self.remove_job(job_id)`, in the
\* order of jobs_to_remove, which is the insertion order of self.jobs (ids
\* ascend with creation).  remove_job raising for `raises` leaves the loop:
\* the try encloses the whole pass.
RECURSIVE RemoveAll(_, _, _, _)
RemoveAll(q, ids, raises, t) ==
    IF ids = {} THEN q
    ELSE LET j == CHOOSE x \in ids : \A y \in ids : x <= y
         IN  IF j = raises THEN q
             ELSE RemoveAll(RemoveJob(q, j, t).q, ids \ {j}, raises, t)

JobsToRemoveAnyState(js, t) ==
    {j \in DOMAIN js : js[j].updated_at < t - RetentionHours}

\* jobs_to_remove of _cleanup_old_jobs.
JobsToRemove(js, t) ==
    {j \in DOMAIN js : /\ js[j].status \in {COMPLETED, FAILED, CANCELLED}
                       /\ js[j].updated_at < t - RetentionHours}

\* One pass of _cleanup_old_jobs over the queue q at time t.
Sweep(q, raises, t) == RemoveAll(q, JobsToRemove(q.jobs, t), raises, t)

Queue == [jobs |-> jobs, running_jobs |-> running_jobs, tasks |-> tasks]

\* ------------------------------------------------------ PodcastGenerator

\* PodcastGenerator.__init__ creates both providers, or leaves both None
\* when a factory raises.
NoProviders == [llm |-> FALSE, tts |-> FALSE]
BothProviders == [llm |-> TRUE, tts |-> TRUE]

\* _ensure_providers_initialized on the provider fields p.  A provider that
\* is already set is not created again; llm_fails / tts_fails say whether
\* the factory raises when it is asked.  The LLM provider comes first, and
\* a failure is re-raised as ValueError.
EnsureProvidersInitialized(p, llm_fails, tts_fails) ==
    IF ~p.llm /\ llm_fails
    THEN [providers |-> p, raised |-> TRUE]
    ELSE LET p1 == [p EXCEPT !.llm = TRUE] IN
         IF ~p1.tts /\ tts_fails
         THEN [providers |-> p1, raised |-> TRUE]
         ELSE [providers |-> [p1 EXCEPT !.tts = TRUE], raised |-> FALSE]

\* A generate_podcast that registers the job before it looks at the
\* providers.
GeneratePodcastCreatesFirst(q, p, id, cb, llm_fails, tts_fails, t) ==
    LET e == EnsureProvidersInitialized(p, llm_fails, tts_fails)
        created == [q EXCEPT !.jobs = (id :> NewJob(cb, t)) @@ q.jobs]
    IN  IF e.raised
        THEN [q |-> created, providers |-> e.providers, nextId |-> id + 1,
              kind |-> "raises"]
        ELSE [q |-> StartJob(created, id, t).q, providers |-> e.providers,
              nextId |-> id + 1, kind |-> "running"]

\* generate_podcast with the fresh job id `id`: the providers first, then
\* create_job, then start_job; the caller gets a result of status running.
GeneratePodcast(q, p, id, cb, llm_fails, tts_fails, t) ==
    LET e == EnsureProvidersInitialized(p, llm_fails, tts_fails)
        created == [q EXCEPT !.jobs = (id :> NewJob(cb, t)) @@ q.jobs]
    IN  IF e.raised
        THEN [q |-> q, providers |-> e.providers, nextId |-> id,
              kind |-> "raises"]
        ELSE [q |-> StartJob(created, id, t).q, providers |-> e.providers,
              nextId |-> id + 1, kind |-> "running"]

SetQueue(q) ==
    /\ jobs' = q.jobs
    /\ running_jobs' = q.running_jobs
    /\ tasks' = q.tasks

\* ---------------------------------------------------------------- actions
\* The queue is empty after construction.  No queue operation reads the
\* providers; Init takes the constructor that found none.
InitQueue ==
    /\ jobs = <<>>
    /\ running_jobs = <<>>
    /\ tasks = <<>>
    /\ files = {}
    /\ calls = [j \in JobIds |-> <<>>]
    /\ now = 0
    /\ nextId = 1

Init == InitQueue /\ providers = NoProviders

InitGenerate == InitQueue /\ providers \in {NoProviders, BothProviders}

\* create_job: a fresh id (uuid4), with or without a progress callback;
\* `cap` bounds the number of jobs created.
create_job_upto(cap, cb) ==
    /\ nextId <= cap
    /\ jobs' = (nextId :> NewJob(cb, now)) @@ jobs
    /\ nextId' = nextId + 1
    /\ UNCHANGED <<running_jobs, tasks, files, calls, now, providers>>

create_job(cb) == create_job_upto(MaxJobs, cb)

\* create_job with any request.
create_job_for(req, cb) ==
    /\ nextId <= MaxJobs
    /\ jobs' = (nextId :> NewJobFor(req, cb, now)) @@ jobs
    /\ nextId' = nextId + 1
    /\ UNCHANGED <<running_jobs, tasks, files, calls, now, providers>>

\* start_job; `cap` bounds the number of jobs that get started.
start_job_upto(cap, j) ==
    /\ StartJob(Queue, j, now).val
          => Cardinality({tasks[i].job : i \in DOMAIN tasks} \cup {j}) <= cap
    /\ SetQueue(StartJob(Queue, j, now).q)
    /\ UNCHANGED <<files, calls, now, nextId, providers>>

start_job(j) == start_job_upto(MaxJobs, j)

cancel_job(j) ==
    /\ SetQueue(CancelJob(Queue, j, now).q)
    /\ UNCHANGED <<files, calls, now, nextId, providers>>

remove_job(j) ==
    /\ SetQueue(RemoveJob(Queue, j, now).q)
    /\ UNCHANGED <<files, calls, now, nextId, providers>>

\* PodcastGenerator.generate_podcast, in one run: none of its awaits
\* suspends.  The number of jobs it creates and starts is bounded.
generate_podcast(cb, llm_fails, tts_fails) ==
    LET r == GeneratePodcast(Queue, providers, nextId, cb, llm_fails,
                             tts_fails, now)
    IN  /\ nextId <= MaxJobs
        /\ Cardinality({tasks[i].job : i \in DOMAIN tasks} \cup {nextId})
              <= MaxJobs
        /\ SetQueue(r.q)
        /\ providers' = r.providers
        /\ nextId' = r.nextId
        /\ UNCHANGED <<files, calls, now>>

\* The reading calls change nothing.
get_job_status(j) ==
    /\ GetJobStatus(Queue, j).kind \in {"none", "raises", "snapshot"}
    /\ UNCHANGED vars

get_queue_stats ==
    /\ GetQueueStats(Queue).running_jobs \in 0..Len(tasks)
    /\ UNCHANGED vars

get_all_jobs(limit) ==
    /\ GetAllJobs(Queue, limit).kind \in {"raises", "list"}
    /\ UNCHANGED vars

get_jobs_by_status(status, limit) ==
    /\ GetJobsByStatus(Queue, status, limit).kind \in {"raises", "list"}
    /\ UNCHANGED vars

\* One iteration of the sweeper loop, after its sleep.  `raises` is the job
\* whose remove_job raises, NoJob when none does; the exception is caught
\* and logged, and the loop goes to its next sleep.
cleanup_old_jobs(raises) ==
    /\ raises \in JobsToRemove(jobs, now) \cup {NoJob}
    /\ SetQueue(Sweep(Queue, raises, now))
    /\ UNCHANGED <<files, calls, now, nextId, providers>>

Tick ==
    /\ now < MaxTicks * TickHours
    /\ now' = now + TickHours
    /\ UNCHANGED <<jobs, running_jobs, tasks, files, calls, nextId, providers>>

\* audio_hangs: whether process_audio, if this run calls it, never returns.
World(i) ==
    [jobs |-> jobs, running_jobs |-> running_jobs, files |-> files,
     calls |-> calls, task |-> tasks[i], audio_hangs |-> FALSE]

SetWorld(i, w) ==
    /\ jobs' = w.jobs
    /\ running_jobs' = w.running_jobs
    /\ files' = w.files
    /\ calls' = w.calls
    /\ tasks' = [tasks EXCEPT ![i] = w.task]
    /\ UNCHANGED <<now, nextId, providers>>

\* The event loop runs task i for the first time.  A task cancelled before
\* it ever ran is dropped without running its body.
FirstRun(w, t) ==
    IF w.task.must_cancel
    THEN {[w EXCEPT !.task = Exited(@, "never_ran")]}
    ELSE IF w.task.job \notin DOMAIN w.jobs
    THEN \* job = self.jobs[job_id] raises KeyError, in the try and again
         \* in `except Exception`
         {[w EXCEPT !.running_jobs = Unregister(@, w.task.job),
                    !.task = Exited(@, "exception")]}
    ELSE Run(w, 1, t)

TaskStart(i) ==
    /\ tasks[i].pc = "created"
    /\ \E w \in FirstRun(World(i), now) : SetWorld(i, w)

\* A suspended task with a pending cancel request gets CancelledError at
\* its await when it next runs.
TaskCancelled(i) ==
    /\ tasks[i].pc \in {"cb", "call"}
    /\ tasks[i].must_cancel
    /\ \E w \in CancelledAtAwait(World(i), now) : SetWorld(i, w)

\* The progress callback a task awaits has come back: it returned, or it
\* raised and the exception was logged and dropped.
CallbackDone(i, raised) ==
    /\ tasks[i].pc = "cb"
    /\ ~tasks[i].must_cancel
    /\ \E w \in AfterCallback(World(i), tasks[i].op, raised, now) :
          SetWorld(i, w)

CallbackReturns(i) == CallbackDone(i, FALSE)

CallbackRaises(i) == CallbackDone(i, TRUE)

\* The collaborator a task awaits has returned or raised.
CallReturns(i) ==
    /\ tasks[i].pc = "call"
    /\ ~tasks[i].must_cancel
    /\ \E out \in CallOutcomes(tasks[i], Ops[tasks[i].op].name) :
          \E w \in AfterCall(World(i), tasks[i].op, out, now) : SetWorld(i, w)

Next ==
    \/ \E cb \in BOOLEAN : create_job(cb)
    \/ \E j \in JobIds : start_job(j)
    \/ \E j \in JobIds : cancel_job(j)
    \/ \E j \in JobIds : remove_job(j)
    \/ \E i \in DOMAIN tasks : TaskStart(i)
    \/ \E i \in DOMAIN tasks : TaskCancelled(i)
    \/ \E i \in DOMAIN tasks : CallbackReturns(i)
    \/ \E i \in DOMAIN tasks : CallReturns(i)

Spec == Init /\ [][Next]_vars

\* The same with the calls that only read the queue.
NextRead ==
    \/ Next
    \/ \E j \in JobIds : get_job_status(j)
    \/ get_queue_stats
    \/ \E limit \in 0..MaxLimit : get_all_jobs(limit)
    \/ \E status \in JobState, limit \in 0..MaxLimit :
          get_jobs_by_status(status, limit)

SpecRead == Init /\ [][NextRead]_vars

\* The same with a clock that advances.
NextTick ==
    \/ Next
    \/ Tick

SpecTick == Init /\ [][NextTick]_vars

\* --------------------------------------------- collaborators that stall
\* The job whose collaborators may never return.
StalledJob == 1

\* A run of the event loop's thread has not ended: no task and no request
\* handler runs.
LoopBlocked == \E i \in DOMAIN tasks : tasks[i].pc = "blocked"

\* The runs of task i that lead it into a process_audio that never
\* returns.
AudioNeverReturns(i) ==
    /\ tasks[i].job = StalledJob
    /\ ~tasks[i].must_cancel
    /\ LET w0 == [World(i) EXCEPT !.audio_hangs = TRUE]
           ws == IF tasks[i].pc = "cb"
                 THEN AfterCallback(w0, tasks[i].op, FALSE, now)
                 ELSE IF tasks[i].pc = "call"
                 THEN UNION {AfterCall(w0, tasks[i].op, out, now) :
                        out \in CallOutcomes(tasks[i], Ops[tasks[i].op].name)}
                 ELSE {}
       IN  \E w \in ws : w.task.pc = "blocked" /\ SetWorld(i, w)

\* A step of task i as the event loop schedules it.
TaskStep(i) ==
    \/ TaskStart(i)
    \/ TaskCancelled(i)
    \/ CallbackReturns(i)
    \/ CallReturns(i)

\* Two jobs without observers, started; the collaborators of StalledJob
\* may never return, and nothing runs while the loop is blocked.
NextStall ==
    /\ ~LoopBlocked
    /\ \/ create_job_upto(MaxJobs + MaxIdle, FALSE)
       \/ \E j \in JobIds : start_job_upto(MaxJobs + MaxIdle, j)
       \/ \E j \in JobIds : cancel_job(j)
       \/ \E i \in DOMAIN tasks : TaskStep(i)
       \/ \E i \in DOMAIN tasks : AudioNeverReturns(i)

\* Task i can take a step: it has not exited and the loop is free
\* (ENABLED TaskStep(i), written out).
Runnable(i) ==
    /\ i \in DOMAIN tasks
    /\ tasks[i].pc \in {"created", "cb", "call"}

\* Weak fairness of the steps of task i, WF_vars(TaskStep(i)) with its
\* enabling condition written out: a task that can run does run.
FairTask(i) ==
    []<>(~Runnable(i)) \/ []<><<i \in DOMAIN tasks /\ TaskStep(i)>>_vars

\* The same, except that a collaborator call of StalledJob need not come
\* back.
FairTaskUnlessStalled(i) ==
    \/ []<>(~(/\ Runnable(i)
              /\ ~LoopBlocked
              /\ tasks[i].job # StalledJob \/ tasks[i].pc # "call"))
    \/ []<><<i \in DOMAIN tasks /\ TaskStep(i)>>_vars

\* The event loop is fair to the tasks; the collaborators of the jobs
\* other than StalledJob return or raise.
FairToOthers ==
    \A i \in 1..(MaxJobs + MaxIdle) : FairTaskUnlessStalled(i)

SpecStall == Init /\ [][NextStall]_vars /\ FairToOthers

\* A job with cancels, removals, the clock and the sweeper, under a fair
\* event loop and collaborators that return or raise.
NextSweep ==
    \/ Next
    \/ Tick
    \/ \E raises \in JobIds \cup {NoJob} : cleanup_old_jobs(raises)

FairToAll == \A i \in 1..MaxJobs : FairTask(i)

SpecLive == Init /\ [][NextSweep]_vars /\ FairToAll

\* The same with jobs of every request.
NextRequest ==
    \/ Next
    \/ \E req \in Requests, cb \in BOOLEAN : create_job_for(req, cb)

SpecRequest == Init /\ [][NextRequest]_vars

\* The same with progress callbacks that may raise.
NextCallback ==
    \/ Next
    \/ \E i \in DOMAIN tasks : CallbackRaises(i)

SpecCallback == Init /\ [][NextCallback]_vars

\* The queue driven through PodcastGenerator.generate_podcast as well.
NextGenerate ==
    \/ Next
    \/ \E cb \in BOOLEAN, llm_fails \in BOOLEAN, tts_fails \in BOOLEAN :
          generate_podcast(cb, llm_fails, tts_fails)

SpecGenerate == InitGenerate /\ [][NextGenerate]_vars

\* The same with further jobs that are started too, so that tasks of
\* different jobs run interleaved.
NextTwo ==
    \/ Next
    \/ \E cb \in BOOLEAN : create_job_upto(MaxJobs + MaxIdle, cb)
    \/ \E j \in JobIds : start_job_upto(MaxJobs + MaxIdle, j)

SpecTwo == Init /\ [][NextTwo]_vars

\* The same with a clock that advances, the sweeper, and further jobs in
\* the store.
NextClock ==
    \/ Next
    \/ \E cb \in BOOLEAN : create_job_upto(MaxJobs + MaxIdle, cb)
    \/ Tick
    \/ \E raises \in JobIds \cup {NoJob} : cleanup_old_jobs(raises)

SpecClock == Init /\ [][NextClock]_vars

TypeOK ==
    /\ DOMAIN jobs \subseteq JobIds
    /\ \A j \in DOMAIN jobs : jobs[j].status \in JobState
    /\ DOMAIN running_jobs \subseteq JobIds
    /\ providers \in [llm : BOOLEAN, tts : BOOLEAN]

\* ================================================================ claims
Stored == DOMAIN jobs

TasksOf(j) == {i \in DOMAIN tasks : tasks[i].job = j}

\* The tasks spawned for j that have not exited.
LiveTasks(j) == {i \in TasksOf(j) : tasks[i].pc # "done"}

HasResult(job) == job.result # None
HasError(job) == job.error # None

\* The state changes the state machine allows.
AllowedEdges ==
    {<<PENDING, RUNNING>>, <<PENDING, CANCELLED>>, <<RUNNING, COMPLETED>>,
     <<RUNNING, FAILED>>, <<RUNNING, CANCELLED>>}

\* C1: every change of a stored job's state is one of the edges
\* Pending->Running, Pending->Cancelled, Running->Completed, Running->Failed,
\* Running->Cancelled (so the terminal states are absorbing and Pending is
\* never re-entered), and a job enters the store as Pending under a fresh id.
C1_OnlyAllowedEdges ==
    [][/\ \A j \in Stored \cap DOMAIN jobs' :
            jobs'[j].status # jobs[j].status
                => <<jobs[j].status, jobs'[j].status>> \in AllowedEdges
       /\ \A j \in DOMAIN jobs' \ Stored :
            jobs'[j].status = PENDING /\ j = nextId]_vars

\* A started job is Failed and its task has run to its end.
C1_Witness ==
    \E j \in Stored :
        /\ jobs[j].status = FAILED
        /\ TasksOf(j) # {}
        /\ \A i \in TasksOf(j) : tasks[i].exit = "returned"

\* C2: a job's result is non-null if and only if its state is Completed.
C2_ResultIffCompleted ==
    \A j \in Stored : HasResult(jobs[j]) <=> jobs[j].status = COMPLETED

\* C3: a job's error is non-null if and only if its state is Failed.
C3_ErrorIffFailed ==
    \A j \in Stored : HasError(jobs[j]) <=> jobs[j].status = FAILED

\* A job failed by a stage that raised, after the task has stored the error.
C3_Witness ==
    \E j \in Stored :
        /\ jobs[j].status = FAILED
        /\ jobs[j].error = Some("stage failed")
        /\ calls[j] # <<>>

\* C4 as stated: a terminal job has exactly one of result and error, a
\* Pending or Running job has neither.
C4_ExactlyOneWhenTerminal ==
    \A j \in Stored :
        IF jobs[j].status \in Terminal
        THEN HasResult(jobs[j]) # HasError(jobs[j])
        ELSE ~HasResult(jobs[j]) /\ ~HasError(jobs[j])

\* C4 amended: a Completed job has a result and no error, a Failed job has
\* an error, a Cancelled job has neither, and a Pending or Running job has
\* neither.
C4_Amended ==
    \A j \in Stored :
        CASE jobs[j].status = COMPLETED ->
                HasResult(jobs[j]) /\ ~HasError(jobs[j])
          [] jobs[j].status = FAILED -> HasError(jobs[j])
          [] OTHER -> ~HasResult(jobs[j]) /\ ~HasError(jobs[j])

\* A job cancelled in the middle of its pipeline.
C4_Witness ==
    \E j \in Stored :
        /\ jobs[j].status = CANCELLED
        /\ jobs[j].progress # None
        /\ Val(jobs[j].progress).percent >= 50

HasAudio(job) == HasResult(job) /\ Val(job.result).mp3_url # None
HasErrorText(job) == HasError(job) /\ Val(job.error) # ""

\* C5: a Completed job has a result with a non-empty audio location, a
\* Failed job has a non-empty error string, and no job has both.
C5_CompletedHasAudioFailedHasError ==
    \A j \in Stored :
        /\ jobs[j].status = COMPLETED => HasAudio(jobs[j])
        /\ jobs[j].status = FAILED => HasErrorText(jobs[j])
        /\ ~(HasAudio(jobs[j]) /\ HasErrorText(jobs[j]))

\* A job failed by an exception whose message is empty.
C5_Witness ==
    \E j \in Stored :
        /\ jobs[j].status = FAILED
        /\ jobs[j].error = Some(DefaultError)

\* C6: while a job is not terminal, a step never lowers the percent of its
\* progress snapshot, nor takes the snapshot away.
C6_PercentNonDecreasing ==
    [][\A j \in Stored \cap DOMAIN jobs' :
          (jobs[j].status \notin Terminal /\ jobs[j].progress # None)
              => /\ jobs'[j].progress # None
                 /\ Val(jobs'[j].progress).percent
                        >= Val(jobs[j].progress).percent]_vars

\* A job on the fallback path whose pipeline has reported 30 percent and is
\* still running.
C6_Witness ==
    \E i \in DOMAIN tasks :
        /\ tasks[i].pc # "done"
        /\ tasks[i].fallback
        /\ tasks[i].job \in Stored
        /\ jobs[tasks[i].job].status = RUNNING
        /\ jobs[tasks[i].job].progress # None
        /\ Val(jobs[tasks[i].job].progress).percent >= 30

\* C7: for every job id, at most one task spawned for it has not exited.
C7_AtMostOneLiveTask ==
    \A j \in JobIds : Cardinality(LiveTasks(j)) <= 1

\* A task that is still alive after cancel took it out of running_jobs.
C7_Witness ==
    \E i \in DOMAIN tasks :
        /\ tasks[i].pc \in {"cb", "call"}
        /\ tasks[i].must_cancel
        /\ tasks[i].job \notin DOMAIN running_jobs

\* C8: start(id) returns true exactly when the job is stored and Pending;
\* then the job is Running with started_at set and one new task for it is
\* recorded in running_jobs; otherwise the queue is unchanged.  No step
\* creates a task for a job that was not Pending, and a job never has had
\* more than one task.
C8_StartContract ==
    /\ [](\A j \in JobIds :
            LET r == StartJob(Queue, j, now) IN
            /\ r.val <=> (j \in Stored /\ jobs[j].status = PENDING)
            /\ r.val =>
                /\ r.q.jobs[j].status = RUNNING
                /\ r.q.jobs[j].started_at # None
                /\ Len(r.q.tasks) = Len(tasks) + 1
                /\ r.q.tasks[Len(r.q.tasks)].job = j
                /\ j \in DOMAIN r.q.running_jobs
                /\ r.q.running_jobs[j] = Len(r.q.tasks)
            /\ ~r.val => r.q = Queue)
    /\ [](\A j \in JobIds : Cardinality(TasksOf(j)) <= 1)
    /\ [][Len(tasks') # Len(tasks) =>
            /\ Len(tasks') = Len(tasks) + 1
            /\ LET j == tasks'[Len(tasks')].job IN
                /\ j \in Stored /\ jobs[j].status = PENDING
                /\ jobs'[j].status = RUNNING]_vars

\* A job that was started: start on it now fails.
C8_Witness ==
    \E j \in Stored :
        /\ jobs[j].status = RUNNING
        /\ jobs[j].started_at # None
        /\ j \in DOMAIN running_jobs
        /\ ~StartJob(Queue, j, now).val

\* C9: cancel(id) on a Pending job returns true and leaves it Cancelled with
\* neither result nor error and without touching any task; a job cancelled
\* while Pending cannot be started, has no task, and no collaborator was
\* ever invoked and no file written for it.
C9_CancelPending ==
    \A j \in Stored :
        /\ jobs[j].status = PENDING =>
            LET r == CancelJob(Queue, j, now) IN
            /\ r.val
            /\ r.q.jobs[j].status = CANCELLED
            /\ r.q.jobs[j].result = None
            /\ r.q.jobs[j].error = None
            /\ r.q.tasks = tasks
        /\ (jobs[j].status = CANCELLED /\ jobs[j].started_at = None) =>
            /\ ~StartJob(Queue, j, now).val
            /\ TasksOf(j) = {}
            /\ calls[j] = <<>>
            /\ files \cap JobFiles(j) = {}
            /\ jobs[j].result = None
            /\ jobs[j].error = None

\* A job that was cancelled while Pending.
C9_Witness ==
    \E j \in Stored :
        jobs[j].status = CANCELLED /\ jobs[j].started_at = None

\* C10: cancel(id) on a Running job returns true and the job is Cancelled
\* when cancel returns, whether or not its task has run since; a stored job
\* that is Cancelled stays Cancelled, also when its task unwinds.
C10_CancelRunning ==
    /\ [](\A j \in Stored :
            jobs[j].status = RUNNING =>
                LET r == CancelJob(Queue, j, now) IN
                /\ r.val
                /\ r.q.jobs[j].status = CANCELLED)
    /\ [](\A i \in DOMAIN tasks :
            (tasks[i].exit \in {"cancelled", "never_ran"}
                /\ tasks[i].job \in Stored)
                => jobs[tasks[i].job].status = CANCELLED)
    /\ [][\A j \in Stored \cap DOMAIN jobs' :
            jobs[j].status = CANCELLED => jobs'[j].status = CANCELLED]_vars

\* A job cancelled while Running whose task has since unwound through the
\* cancellation handler.
C10_Witness ==
    \E i \in DOMAIN tasks :
        /\ tasks[i].exit = "cancelled"
        /\ tasks[i].job \in Stored
        /\ jobs[tasks[i].job].status = CANCELLED

\* C11: cancel(id) on a job that is Completed, Failed or Cancelled returns
\* false and changes nothing: the jobs (state, result, error, progress,
\* timestamps), running_jobs and the tasks are as before, so repeating it
\* changes nothing either.
C11_CancelTerminalIsNoOp ==
    \A j \in Stored :
        jobs[j].status \in Terminal =>
            LET r == CancelJob(Queue, j, now) IN
            /\ ~r.val
            /\ r.q = Queue
            /\ CancelJob(r.q, j, now) = r

\* A Completed job whose task is still registered (it is suspended in the
\* callback of the final progress report): cancel on it is refused.
C11_Witness ==
    \E j \in Stored :
        /\ jobs[j].status = COMPLETED
        /\ j \in DOMAIN running_jobs
        /\ LiveTasks(j) # {}
        /\ ~CancelJob(Queue, j, now).val

\* C12: a task that has not exited is registered in running_jobs under its
\* job id, also after cancel: only the task's own exit unregisters it.
C12_LiveTaskStaysRegistered ==
    \A i \in DOMAIN tasks :
        tasks[i].pc # "done" =>
            /\ tasks[i].job \in DOMAIN running_jobs
            /\ running_jobs[tasks[i].job] = i

\* C13: a task that is suspended in a collaborator call leaves the call
\* only with the call's own outcome; it never takes the cancellation exit
\* from inside the call.
C13_CancelOnlyAtStageBoundary ==
    [][\A i \in DOMAIN tasks :
          tasks[i].pc = "call" => tasks'[i].exit # "cancelled"]_vars

\* Cancel has returned true for job j: the job is Cancelled, or (the job
\* removed since) its task still carries the request.
CancelRequested(j) ==
    \/ j \in Stored /\ jobs[j].status = CANCELLED
    \/ \E i \in TasksOf(j) : tasks[i].must_cancel

\* The artifact of the stage a task is in the middle of.
InFlightArtifacts(j) ==
    {<<"speech", j>> : i \in {i \in TasksOf(j) :
        /\ tasks[i].pc = "call"
        /\ Ops[tasks[i].op].name = "generate_speech"}}

\* C14: once cancel has returned true for a job, no step invokes another
\* collaborator for it, writes an artifact of a later stage for it (the
\* stage in flight may still leave its own), or stores another progress
\* snapshot for it.
C14_NothingBeginsAfterCancel ==
    [][\A j \in JobIds :
          CancelRequested(j) =>
              /\ calls'[j] = calls[j]
              /\ ((files' \cap JobFiles(j)) \ files) \subseteq InFlightArtifacts(j)
              /\ j \in Stored \cap DOMAIN jobs'
                    => jobs'[j].progress = jobs[j].progress]_vars

\* Cancel has returned true while script generation is in flight.
C14_Witness ==
    \E i \in DOMAIN tasks :
        /\ tasks[i].pc = "call"
        /\ Ops[tasks[i].op].name = "generate_script"
        /\ tasks[i].must_cancel
        /\ tasks[i].job \in Stored
        /\ jobs[tasks[i].job].status = CANCELLED

\* The stored jobs a sweep is to remove: terminal, and last updated longer
\* ago than the retention window.
Eligible ==
    {j \in Stored : /\ jobs[j].status \in Terminal
                    /\ now - jobs[j].updated_at > RetentionHours}

\* C15: a sweep removes only eligible jobs, and all of them when no removal
\* fails; every other job (Pending or Running however old, terminal but
\* within the window) stays as it is, and no task is cancelled or
\* unregistered by the sweep.
C15_SweepRemovesExactlyEligible ==
    /\ \A raises \in JobsToRemove(jobs, now) \cup {NoJob} :
          LET q == Sweep(Queue, raises, now) IN
          /\ (Stored \ Eligible) \subseteq DOMAIN q.jobs
          /\ DOMAIN q.jobs \subseteq Stored
          /\ raises = NoJob => DOMAIN q.jobs = Stored \ Eligible
          /\ \A j \in DOMAIN q.jobs : q.jobs[j] = jobs[j]
          /\ q.tasks = tasks
          /\ q.running_jobs = running_jobs
    /\ JobsToRemove(jobs, now) = Eligible

\* A store with a Running job and a terminal job, both last updated longer
\* ago than the window: a sweep of it removes something and keeps the
\* Running job.
C15_Witness ==
    /\ \E j \in Stored :
          /\ jobs[j].status = RUNNING
          /\ now - jobs[j].updated_at > RetentionHours
          /\ j \in DOMAIN Sweep(Queue, NoJob, now).jobs
    /\ Eligible # {}
    /\ DOMAIN Sweep(Queue, NoJob, now).jobs # Stored

Awaiting == {i \in DOMAIN tasks : tasks[i].pc = "call" /\ ~tasks[i].must_cancel}

\* The outcomes of the awaited call of task i that are exceptions.
Raising(i) ==
    {out \in CallOutcomes(tasks[i], Ops[tasks[i].op].name) : out.raises}

\* The error string err contains the message msg.
Contains(err, msg) == msg = "" \/ err = msg

\* The task is past the pipeline: it has exited, or it is suspended in the
\* callback of the report _run_job makes after storing the outcome.
PastPipeline(task) ==
    task.pc = "done" \/ (task.pc = "cb" /\ task.op = FinalReportOp)

\* C17: when a collaborator call of a stored job's pipeline raises, the
\* same run of the task leaves the job Failed with an error that contains
\* the raised message, invokes no further collaborator and leaves the
\* pipeline; and once a job is Failed its task is past the pipeline, no
\* collaborator is invoked and no artifact written for it any more, and it
\* stays Failed with the same error.
C17_StageFailureFailsJob ==
    /\ [](\A i \in Awaiting :
            tasks[i].job \in Stored =>
                \A out \in Raising(i) :
                    \A w \in AfterCall(World(i), tasks[i].op, out, now) :
                        LET job == w.jobs[tasks[i].job] IN
                        /\ job.status = FAILED
                        /\ HasError(job)
                        /\ Contains(Val(job.error), out.msg)
                        /\ w.calls = calls
                        /\ PastPipeline(w.task))
    /\ [](\A j \in Stored :
            jobs[j].status = FAILED =>
                \A i \in TasksOf(j) : PastPipeline(tasks[i]))
    /\ [][\A j \in Stored :
            jobs[j].status = FAILED =>
                /\ calls'[j] = calls[j]
                /\ (files' \cap JobFiles(j)) \subseteq files
                /\ j \in DOMAIN jobs' =>
                      /\ jobs'[j].status = FAILED
                      /\ jobs'[j].error = jobs[j].error]_vars

\* Script generation has raised "stage failed": the job is Failed with that
\* message and speech generation was never invoked.
C17_Witness ==
    \E j \in Stored :
        /\ jobs[j].status = FAILED
        /\ jobs[j].error = Some("stage failed")
        /\ calls[j] # <<>>
        /\ calls[j][Len(calls[j])] = "generate_script"

\* C18 as stated: a Failed job has no artifact on disk.
C18_FailedHasNoArtifacts ==
    \A j \in Stored :
        jobs[j].status = FAILED => files \cap JobFiles(j) = {}

\* The files of job j from `kind` on in the order of the cleanup.
FromInCleanupOrder(j, kind) ==
    {<<CleanupOrder[n], j>> : n \in {n \in 1..Len(CleanupOrder) :
        \E m \in 1..n : CleanupOrder[m] = kind}}

\* C18 amended: a Failed job in whose cleanup no removal failed has no
\* artifact on disk; if the removal of one file failed, the job's artifacts
\* on disk are among that file and those after it in the cleanup's order
\* (speech, final audio, notes, script).
C18_Amended ==
    \A j \in Stored :
        jobs[j].status = FAILED =>
            \A i \in TasksOf(j) :
                IF tasks[i].rm_failed = NoFile
                THEN files \cap JobFiles(j) = {}
                ELSE /\ <<tasks[i].rm_failed, j>> \in files
                     /\ (files \cap JobFiles(j))
                            \subseteq FromInCleanupOrder(j, tasks[i].rm_failed)

\* A job failed after its script and speech files were written, and
\* cleaned up without a failing removal.
C18_Witness ==
    \E j \in Stored :
        /\ jobs[j].status = FAILED
        /\ calls[j] # <<>>
        /\ calls[j][Len(calls[j])] \in {"generate_speech", "process_audio"}
        /\ \A i \in TasksOf(j) : tasks[i].rm_failed = NoFile
        /\ files \cap JobFiles(j) = {}

\* C19: a Cancelled job whose task has exited has no artifact on disk.
C19_CancelledHasNoArtifacts ==
    \A j \in Stored :
        (jobs[j].status = CANCELLED /\ LiveTasks(j) = {})
            => files \cap JobFiles(j) = {}

\* C20: when a removal fails in the cleanup after a raising collaborator
\* call, the job is Failed with the error of the call (the default text
\* for an empty message), and the task goes on to the final report; a task
\* in whose cleanup a removal failed exits by returning, and the job it
\* failed has an error that is not the cleanup's.
C20_CleanupErrorSwallowed ==
    /\ \A i \in Awaiting :
          tasks[i].job \in Stored =>
              \A out \in Raising(i) :
                  \A w \in AfterCall(World(i), tasks[i].op, out, now) :
                      w.task.rm_failed # NoFile =>
                          LET job == w.jobs[tasks[i].job] IN
                          /\ job.status = FAILED
                          /\ job.error = Some(IF out.msg = "" THEN DefaultError
                                               ELSE out.msg)
                          /\ w.task.exit \in {"live", "returned"}
    /\ \A i \in DOMAIN tasks :
          tasks[i].rm_failed # NoFile =>
              /\ tasks[i].exit \in {"live", "returned"}
              /\ PastPipeline(tasks[i])
              /\ tasks[i].job \in Stored =>
                    /\ jobs[tasks[i].job].status \in {FAILED, COMPLETED}
                    /\ jobs[tasks[i].job].error
                          \in {None, Some("stage failed"), Some(DefaultError)}

\* A job failed by a stage error whose cleanup could not remove the script
\* file: the task has returned and the job carries the stage's error.
C20_Witness ==
    \E i \in DOMAIN tasks :
        /\ tasks[i].rm_failed = "script"
        /\ tasks[i].exit = "returned"
        /\ tasks[i].job \in Stored
        /\ jobs[tasks[i].job].status = FAILED
        /\ jobs[tasks[i].job].error = Some("stage failed")
        /\ <<"script", tasks[i].job>> \in files

\* The collaborators of a whole pipeline, in order, on the fallback path and
\* on the path with sources.
FallbackCalls ==
    <<"get_diverse_sources", "generate_script_from_text", "generate_speech",
      "process_audio">>
SourcesCalls ==
    <<"get_diverse_sources", "extract_content_from_sources", "generate_script",
      "generate_speech", "process_audio">>

IsPrefix(s, t) == Len(s) <= Len(t) /\ s = SubSeq(t, 1, Len(s))

\* The tasks suspended in source discovery that may get its answer.
Discovering ==
    {i \in Awaiting : Ops[tasks[i].op].name = "get_diverse_sources"}

\* The artifacts a finished job keeps.
Persisted(j) == {<<"podcast", j>>, <<"notes", j>>, <<"script", j>>}

\* C21: when source discovery returns an empty list, the run that takes
\* the answer leaves the job Running on the fallback path (it reports "No
\* web sources found" or is already in script generation from the topic
\* text) without calling extraction; a pipeline on the fallback path
\* invokes exactly source discovery, script generation from text, speech
\* and audio processing, in this order; and a job Completed on it has
\* written script, final audio and notes and has metrics.sources_used = 0.
C21_EmptySourcesFallBack ==
    /\ \A i \in Discovering :
          tasks[i].job \in Stored =>
              \A w \in AfterCall(World(i), tasks[i].op,
                                  Outcome(FALSE, 0, "", FALSE), now) :
                  LET j == tasks[i].job IN
                  /\ w.jobs[j].status = RUNNING
                  /\ w.jobs[j].error = None
                  /\ w.task.fallback
                  /\ w.calls[j] \in {<<"get_diverse_sources">>,
                                      SubSeq(FallbackCalls, 1, 2)}
    /\ \A i \in DOMAIN tasks :
          tasks[i].fallback => IsPrefix(calls[tasks[i].job], FallbackCalls)
    /\ \A j \in Stored :
          (jobs[j].status = COMPLETED /\ calls[j][2] = FallbackCalls[2]) =>
              /\ calls[j] = FallbackCalls
              /\ Persisted(j) \subseteq files
              /\ Val(Val(jobs[j].result).metrics).sources_used = 0

\* A job that completed on the fallback path.
C21_Witness ==
    \E j \in Stored :
        /\ jobs[j].status = COMPLETED
        /\ calls[j] = FallbackCalls
        /\ Val(Val(jobs[j].result).metrics).sources_used = 0

\* C22: a Completed job has completed_at set and a result of status ready
\* that holds a title, the locations of the audio, notes and script files
\* of its own id, which are on disk, and the metrics; its pipeline invoked
\* every collaborator of its path; and a stored job whose task has returned
\* is Completed unless it carries the error of a stage that raised.
C22_SuccessCompletes ==
    /\ \A j \in Stored :
          jobs[j].status = COMPLETED =>
              LET result == Val(jobs[j].result) IN
              /\ jobs[j].completed_at # None
              /\ HasResult(jobs[j])
              /\ result.status = "ready"
              /\ result.title # None
              /\ result.mp3_url = <<"podcast", j>>
              /\ result.notes_url = <<"notes", j>>
              /\ result.script_url = <<"script", j>>
              /\ result.metrics # None
              /\ Persisted(j) \subseteq files
              /\ calls[j] \in {FallbackCalls, SourcesCalls}
    /\ \A i \in DOMAIN tasks :
          (tasks[i].exit = "returned" /\ tasks[i].job \in Stored) =>
              \/ jobs[tasks[i].job].status = COMPLETED
              \/ /\ jobs[tasks[i].job].status = FAILED
                 /\ HasError(jobs[tasks[i].job])

\* A job that completed with sources, whose task has returned.
C22_Witness ==
    \E j \in Stored :
        /\ jobs[j].status = COMPLETED
        /\ calls[j] = SourcesCalls
        /\ jobs[j].completed_at # None
        /\ \A i \in TasksOf(j) : tasks[i].exit = "returned"

\* C23: a task that has exited did not end with an unhandled exception,
\* its job, if still stored, is in a terminal state, and its job id is not
\* in running_jobs.
C23_NoFailureEscapesTask ==
    \A i \in DOMAIN tasks :
        tasks[i].pc = "done" =>
            /\ tasks[i].exit # "exception"
            /\ tasks[i].job \in Stored => jobs[tasks[i].job].status \in Terminal
            /\ tasks[i].job \notin DOMAIN running_jobs

\* C24: get-status of a stored job, whatever its state, returns a snapshot
\* whose state, progress, result, error and timestamps are the job's.
C24_StatusSnapshot ==
    \A j \in Stored :
        LET r == GetJobStatus(Queue, j) IN
        /\ r.kind = "snapshot"
        /\ r.status = jobs[j].status
        /\ r.progress = jobs[j].progress
        /\ r.result = jobs[j].result
        /\ r.error = jobs[j].error
        /\ r.created_at = jobs[j].created_at
        /\ r.updated_at = jobs[j].updated_at

\* The items of a listing are snapshots of stored jobs, newest first.
WellListed(r, limit) ==
    /\ r.kind = "list"
    /\ Len(r.items) <= limit
    /\ \A k \in 1..Len(r.items) :
          /\ r.items[k].kind = "snapshot"
          /\ r.items[k].job_id \in Stored
          /\ \A m \in 1..k : r.items[m].created_at >= r.items[k].created_at

\* C25: for every limit, the unfiltered listing and the listing of each of
\* the five states return at most limit snapshots of stored jobs, newest
\* first, the filtered one only of jobs in that state.
C25_Listing ==
    \A limit \in 0..MaxLimit :
        /\ WellListed(GetAllJobs(Queue, limit), limit)
        /\ \A status \in JobState :
              LET r == GetJobsByStatus(Queue, status, limit) IN
              /\ WellListed(r, limit)
              /\ \A k \in 1..Len(r.items) : r.items[k].status = status

\* The ids that are not in the store.
Unknown == JobIds \ Stored

\* C26: start, cancel, get-status and remove with an id that is not in the
\* store return false (get-status: no record) and leave the jobs,
\* running_jobs and the tasks as they are.
C26_UnknownIdRefused ==
    \A j \in Unknown :
        /\ StartJob(Queue, j, now) = Returns(Queue, FALSE)
        /\ CancelJob(Queue, j, now) = Returns(Queue, FALSE)
        /\ RemoveJob(Queue, j, now) = Returns(Queue, FALSE)
        /\ GetJobStatus(Queue, j).kind = "none"

\* An id that was removed from the store while its task is still
\* registered and alive.
C26_Witness ==
    \E j \in Unknown :
        /\ j \in DOMAIN running_jobs
        /\ LiveTasks(j) # {}
        /\ ~RemoveJob(Queue, j, now).val

\* C27: when a provider cannot be initialised, generate_podcast raises to
\* its caller before any job is created: the job store, the active-task
\* set, the tasks and the id counter are as before the call.  It raises
\* exactly when a provider that is not yet set fails to initialise.
C27_ProviderFailureCreatesNoJob ==
    nextId \in JobIds =>
    \A cb \in BOOLEAN, llm_fails \in BOOLEAN, tts_fails \in BOOLEAN :
        LET r == GeneratePodcast(Queue, providers, nextId, cb, llm_fails,
                                 tts_fails, now)
            needed == \/ ~providers.llm /\ llm_fails
                      \/ ~providers.tts /\ tts_fails
        IN  /\ (r.kind = "raises") <=> needed
            /\ r.kind = "raises" => r.q = Queue /\ r.nextId = nextId
            /\ r.kind = "running" =>
                  /\ nextId \in DOMAIN r.q.jobs
                  /\ nextId \in DOMAIN r.q.running_jobs

\* The TTS provider failed after the LLM provider was set, and no job
\* exists.
C27_Witness ==
    /\ providers.llm
    /\ ~providers.tts
    /\ Stored = {}
    /\ DOMAIN running_jobs = {}
    /\ tasks = <<>>
    /\ nextId = 1

\* The worlds ws without the note that a callback raised.
Unnoted(ws) == {[w EXCEPT !.task.cb_raised = FALSE] : w \in ws}

\* C28: a progress callback that raises is swallowed.  While a task waits
\* in the callback of a report, the snapshot of that report is the stored
\* progress of its job; and from there a raising callback leads to exactly
\* the worlds a returning callback leads to: the run goes on after the
\* report, and no failure is recorded on account of the callback.
C28_CallbackFailureSwallowed ==
    \A i \in DOMAIN tasks :
        tasks[i].pc = "cb" /\ ~tasks[i].must_cancel =>
            LET j == tasks[i].job
                k == tasks[i].op
            IN  /\ Ops[k].kind = "report"
                /\ j \in Stored =>
                      jobs[j].progress =
                          Some(ProgressUpdate(Ops[k].percent, Ops[k].msg))
                /\ Unnoted(AfterCallback(World(i), k, TRUE, now))
                      = Unnoted(AfterCallback(World(i), k, FALSE, now))
                /\ \A w \in AfterCallback(World(i), k, TRUE, now) :
                      w.task.pc # "done" => w.task.cb_raised /\ w.task.op > k

\* A callback raised during the run, and the pipeline went through to its
\* last report with a ready result.
C28_Witness ==
    \E i \in DOMAIN tasks :
        /\ tasks[i].cb_raised
        /\ tasks[i].pc = "cb"
        /\ tasks[i].op = FinalReportOp
        /\ tasks[i].job \in Stored
        /\ jobs[tasks[i].job].result # None
        /\ jobs[tasks[i].job].result[1].status = "ready"

\* The timestamps of a job are in order: created, then started, then
\* completed, where set, and none is later than updated_at.
TimestampsOrdered(job) ==
    /\ job.created_at <= job.updated_at
    /\ job.started_at # None =>
          /\ job.created_at <= job.started_at[1]
          /\ job.started_at[1] <= job.updated_at
    /\ job.completed_at # None =>
          /\ job.created_at <= job.completed_at[1]
          /\ job.completed_at[1] <= job.updated_at
    /\ job.started_at # None /\ job.completed_at # None =>
          job.started_at[1] <= job.completed_at[1]

\* C29: with a clock that never goes back, the timestamps of every stored
\* job are in order and no later than the clock, and no step lowers a
\* job's updated_at or changes its created_at.
C29_TimestampsMonotone ==
    /\ [](\A j \in Stored :
            TimestampsOrdered(jobs[j]) /\ jobs[j].updated_at <= now)
    /\ [][/\ now' >= now
          /\ \A j \in Stored \cap DOMAIN jobs' :
                /\ jobs'[j].updated_at >= jobs[j].updated_at
                /\ jobs'[j].created_at = jobs[j].created_at]_vars

\* A job created, started later and completed later still, with a progress
\* report in between.
C29_Witness ==
    \E j \in Stored :
        /\ jobs[j].started_at # None
        /\ jobs[j].completed_at # None
        /\ jobs[j].progress # None
        /\ jobs[j].created_at < jobs[j].started_at[1]
        /\ jobs[j].started_at[1] < jobs[j].completed_at[1]
        /\ jobs[j].completed_at[1] <= jobs[j].updated_at

\* Nothing of job b changes in the step: its record, its artifacts, the
\* collaborators called for it, its tasks and its registration.
Untouched(b) ==
    /\ (b \in DOMAIN jobs') <=> (b \in Stored)
    /\ b \in Stored => jobs'[b] = jobs[b]
    /\ {f \in files' : f[2] = b} = {f \in files : f[2] = b}
    /\ calls'[b] = calls[b]
    /\ (b \in DOMAIN running_jobs') <=> (b \in DOMAIN running_jobs)
    /\ \A i \in DOMAIN tasks : tasks[i].job = b => tasks'[i] = tasks[i]

\* C30: jobs do not interfere.  Every artifact on disk carries the id of a
\* job that was created, and a step of a job's task (a stage, a progress
\* report, a cleanup, the delivery of a cancellation) or a cancel_job for
\* a job leaves every other job untouched: a step that touches a job other
\* than j is no step of a task of j and no cancel_job(j).
C30_JobsDoNotInterfere ==
    /\ [](\A f \in files : f[2] \in 1..(nextId - 1))
    /\ [][\A j \in JobIds :
            (\E b \in JobIds \ {j} : ~Untouched(b)) =>
                /\ ~cancel_job(j)
                /\ \A i \in TasksOf(j) :
                      ~(\/ TaskStart(i) \/ TaskCancelled(i)
                        \/ CallbackReturns(i) \/ CallReturns(i))]_vars

\* One job has failed and its artifacts are cleaned up, while another job
\* is still running with its script on disk.
C30_Witness ==
    \E a \in Stored, b \in Stored :
        /\ a # b
        /\ jobs[a].status = FAILED
        /\ files \cap JobFiles(a) = {}
        /\ \E i \in TasksOf(a) : tasks[i].rm_failed = NoFile
        /\ jobs[b].status = RUNNING
        /\ <<"script", b>> \in files
        /\ \E i \in LiveTasks(b) : tasks[i].pc = "call"

ScriptCalls == {"generate_script", "generate_script_from_text"}

\* The task waits in the script-generation collaborator.
InScriptCall(i) ==
    tasks[i].pc = "call" /\ Ops[tasks[i].op].name \in ScriptCalls

\* C31: the script-generation collaborator is invoked with exactly the
\* topic, description, tone and target length the job was created with, on
\* the structured-content path and on the fallback path.
C31_ScriptGetsTheRequest ==
    \A i \in DOMAIN tasks :
        InScriptCall(i) /\ tasks[i].job \in Stored =>
            ScriptArgs(tasks[i].request[1]) = jobs[tasks[i].job].request

\* ProgressUpdate.percent: ge=0.0, le=100.0
MaxPercent == 100
Percents == 0..MaxPercent

\* Messages a caller may report with.
Messages == {"", "Script generated successfully"}

\* floor(percent / d): the s with d * s <= percent < d * (s + 1).
Floor(percent, d) ==
    CHOOSE s \in 0..percent : d * s <= percent /\ percent < d * (s + 1)

\* C32: a progress report on a stored job replaces the job's progress by
\* the snapshot of the given percent and message with stage
\* floor(percent / 20) and sets updated_at to the time of the report,
\* changing nothing else; on an unknown id it changes nothing.  A task
\* waits in the observer only when its job has one, with the stored
\* snapshot being the one of the report, and after the observer has come
\* back it goes on past that report.
C32_ReportStoresSnapshot ==
    /\ \A j \in JobIds, percent \in Percents, msg \in Messages :
          LET js == StoreProgress(jobs, j, percent, msg, now) IN
          IF j \notin Stored THEN js = jobs
          ELSE /\ DOMAIN js = Stored
               /\ \A b \in Stored \ {j} : js[b] = jobs[b]
               /\ js[j].progress =
                     Some([stage |-> Floor(percent, 20), message |-> msg,
                           percent |-> percent])
               /\ js[j].updated_at = now
               /\ js[j].updated_at >= jobs[j].updated_at
               /\ [js[j] EXCEPT !.progress = None, !.updated_at = 0]
                     = [jobs[j] EXCEPT !.progress = None, !.updated_at = 0]
    /\ \A i \in DOMAIN tasks :
          tasks[i].pc = "cb" =>
              LET j == tasks[i].job
                  k == tasks[i].op
              IN  /\ Ops[k].kind = "report"
                  /\ j \in Stored =>
                        /\ jobs[j].progress_callback
                        /\ jobs[j].progress =
                              Some(ProgressUpdate(Ops[k].percent, Ops[k].msg))
                  /\ \A w \in AfterCallback(World(i), k, FALSE, now) :
                        w.task.pc # "done" => w.task.op > k

\* A task waits in the observer of its third-stage report, made later than
\* the job was started.
C32_Witness ==
    \E i \in DOMAIN tasks :
        /\ tasks[i].pc = "cb"
        /\ tasks[i].job \in Stored
        /\ jobs[tasks[i].job].progress # None
        /\ jobs[tasks[i].job].progress[1].percent = 50
        /\ jobs[tasks[i].job].progress[1].stage = 2
        /\ jobs[tasks[i].job].updated_at = now
        /\ jobs[tasks[i].job].started_at[1] < now

\* `# 5 stages`
NumStages == 5
Stages == 0..(NumStages - 1)

\* C33: the stage index of every snapshot a job receives from the
\* pipeline is one of the five stages 0..4.
C33_StageIsOneOfFive ==
    \A j \in Stored :
        jobs[j].progress # None => jobs[j].progress[1].stage \in Stages

\* The collaborator name occurs in the sequence of calls.
Called(cs, name) == \E n \in DOMAIN cs : cs[n] = name

\* C34: the collaborators of a job are invoked in the fixed order of the
\* stages, each only when the one before it has returned (the call a task
\* waits in is the last one made for its job); the script is on disk when
\* speech synthesis is invoked, and an artifact exists only when the
\* stages up to the one that writes it have been invoked.
C34_StagesInOrder ==
    \A j \in JobIds :
        /\ IsPrefix(calls[j], FallbackCalls) \/ IsPrefix(calls[j], SourcesCalls)
        /\ \A i \in TasksOf(j) :
              tasks[i].pc = "call" =>
                  /\ calls[j] # <<>>
                  /\ calls[j][Len(calls[j])] = Ops[tasks[i].op].name
                  /\ Ops[tasks[i].op].name = "generate_speech" =>
                        <<"script", j>> \in files
        /\ <<"script", j>> \in files =>
              \E name \in ScriptCalls : Called(calls[j], name)
        /\ <<"speech", j>> \in files => Called(calls[j], "generate_speech")
        /\ <<"podcast", j>> \in files => Called(calls[j], "process_audio")
        /\ <<"notes", j>> \in files => <<"podcast", j>> \in files

\* A task waits in speech synthesis on the structured-content path, with
\* the script on disk.
C34_Witness ==
    \E i \in DOMAIN tasks :
        /\ tasks[i].pc = "call"
        /\ Ops[tasks[i].op].name = "generate_speech"
        /\ calls[tasks[i].job] = SubSeq(SourcesCalls, 1, 4)
        /\ <<"script", tasks[i].job>> \in files

\* The job is stored and Running.
IsRunning(j) == j \in Stored /\ jobs[j].status = RUNNING

\* C35: a collaborator of one job that never returns stalls only that
\* job: every other job that is Running reaches a terminal state, and a
\* cancel of any job can always be served.
C35_StallIsLocal ==
    /\ \A j \in JobIds \ {StalledJob} :
          IsRunning(j) ~> (j \in Stored /\ jobs[j].status \in Terminal)
    /\ [](\A j \in Stored : ENABLED (~LoopBlocked /\ cancel_job(j)))

\* The job has been started and is not through: it is in the active-task
\* set, or it is stored and Running.
Underway(j) == j \in DOMAIN running_jobs \/ IsRunning(j)

\* The job is through: not in the active-task set, and terminal unless it
\* has been removed.
Through(j) ==
    /\ j \notin DOMAIN running_jobs
    /\ j \in Stored => jobs[j].status \in Terminal

\* C36: with a fair event loop and collaborators that return or raise,
\* every job that was started gets through, whatever cancels, removals
\* and sweeps happen: its id leaves the active-task set and its record,
\* unless removed, is Completed, Failed or Cancelled; and its task exits.
C36_StartedJobsTerminate ==
    /\ \A j \in JobIds : Underway(j) ~> Through(j)
    /\ \A i \in 1..MaxJobs :
          (i \in DOMAIN tasks) ~> (i \in DOMAIN tasks /\ tasks[i].pc = "done")

\* A job was cancelled while its task was suspended; the task has taken
\* the cancellation and exited, and the job is through.
C36_Witness ==
    \E i \in DOMAIN tasks :
        /\ tasks[i].pc = "done"
        /\ tasks[i].exit = "cancelled"
        /\ tasks[i].job \in Stored
        /\ jobs[tasks[i].job].status = CANCELLED
        /\ Through(tasks[i].job)

\* C37: every id in the active-task set is the id of a stored job in state
\* Running, and the running count of the queue statistics is the number
\* of stored jobs in state Running.
C37_ActiveSetIsRunningJobs ==
    /\ \A j \in DOMAIN running_jobs : IsRunning(j)
    /\ GetQueueStats(Queue).running_jobs
          = Cardinality({j \in Stored : jobs[j].status = RUNNING})

\* C38: remove_job of a stored job whose id is in running_jobs cancels
\* the task, deletes the record, unregisters the id and returns true; and
\* a task whose job was removed exits without an unhandled exception,
\* with its id out of running_jobs.
C38_RemoveOfActiveJob ==
    /\ \A j \in DOMAIN running_jobs \cap Stored :
           LET r == RemoveJob(Queue, j, now) IN
           /\ r.val = TRUE
           /\ j \notin DOMAIN r.q.jobs
           /\ j \notin DOMAIN r.q.running_jobs
           /\ r.q.tasks[running_jobs[j]].must_cancel
    /\ \A i \in DOMAIN tasks :
           (tasks[i].pc = "done" /\ tasks[i].job \notin Stored) =>
               /\ tasks[i].exit # "exception"
               /\ tasks[i].job \notin DOMAIN running_jobs

\* C39: a stored job in state Failed or Cancelled carries no snapshot with
\* percent 100, and no task is in the callback of a report for a job
\* whose state is Failed.
C39_CompletedSnapshotOnlyOnSuccess ==
    /\ \A j \in Stored :
           (jobs[j].status \in {FAILED, CANCELLED} /\ jobs[j].progress # None)
               => Val(jobs[j].progress).percent # MaxPercent
    /\ \A i \in DOMAIN tasks :
           (tasks[i].pc = "cb" /\ tasks[i].job \in Stored)
               => jobs[tasks[i].job].status # FAILED

====
